---- MODULE Spec2Model ----
(***************************************************************************)
(* Model of ext/fetch/resolver.rs: the CustomResolver service (override    *)
(* table, background lookup tasks, CustomResolverFuture poll and drop) and *)
(* the SocketAddrs address sequence (next, filter, split_by_preference).   *)
(*                                                                         *)
(* Two specifications share the variables:                                 *)
(*   Spec / FairSpec  the resolver: calls, their tasks and their futures;  *)
(*   SplitSpec        one SocketAddrs value and the operations on it.      *)
(*                                                                         *)
(* The tokio primitives the code calls are modelled by their documented    *)
(* behaviour: a spawned task is queued until a worker runs it; abort()     *)
(* cancels a task that has not started, has no effect on a blocking task   *)
(* that is already running, and is a no-op on a finished task.             *)
(***************************************************************************)
EXTENDS Integers, Sequences, FiniteSets, TLC

\* Number of resolve calls made on the service.
MaxCalls == 2
\* Longest address sequence handed to SocketAddrs::new.
MaxLen == 3

Calls == 1..MaxCalls

\* Option<T>: None, Some(x).
None == <<>>
Some(x) == <<x>>
IsSome(o) == o # None
Unwrap(o) == o[1]

\* Result<T, E>: Ok(v), Err(e).
Ok(v) == <<"Ok", v>>
Err(e) == <<"Err", e>>
IsOk(r) == r[1] = "Ok"
IsErr(r) == r[1] = "Err"

(***************************************************************************)
(* Socket addresses                                                        *)
(***************************************************************************)
SockV4(ip, port) == [fam |-> "v4", ip |-> ip, port |-> port]
SockV6(ip, port) == [fam |-> "v6", ip |-> ip, port |-> port]
is_ipv4(a) == a.fam = "v4"
is_ipv6(a) == a.fam = "v6"

\* An Ipv4Addr is its four octets, an Ipv6Addr its eight 16-bit segments.
V4A == SockV4(<<127, 0, 0, 1>>, 80)
V4B == SockV4(<<1, 2, 3, 4>>, 0)
V6A == SockV6(<<0, 0, 0, 0, 0, 0, 0, 1>>, 80)
V6B == SockV6(<<0, 0, 0, 0, 0, 0, 0, 2>>, 0)
Addrs == {V4A, V4B, V6A, V6B}

(***************************************************************************)
(* SocketAddrs { iter: vec::IntoIter<SocketAddr> } and CustomAddrs         *)
(***************************************************************************)
SocketAddrs_new(addrs) == [iter |-> addrs]

\* Iterator::next on SocketAddrs: <<item, the iterator afterwards>>.
SocketAddrs_next_peek(s) ==
  IF s.iter = <<>> THEN <<None, s>>
  ELSE <<Some(Head(s.iter)), s>>
SocketAddrs_next(s) ==
  IF s.iter = <<>> THEN <<None, s>>
  ELSE <<Some(Head(s.iter)), [iter |-> Tail(s.iter)]>>

\* Iterator::next on CustomAddrs delegates to the inner SocketAddrs.
CustomAddrs_next(c) ==
  LET r == SocketAddrs_next(c.inner) IN <<r[1], [inner |-> r[2]]>>

\* The items a caller gets from a CustomAddrs by calling next() until None.
RECURSIVE CustomAddrs_collect(_)
CustomAddrs_collect(c) ==
  LET r == CustomAddrs_next(c) IN
  IF r[1] = None THEN <<>> ELSE <<Unwrap(r[1])>> \o CustomAddrs_collect(r[2])

\* The two predicates the code filters with, passed by name.
Predicates == {"is_ipv4", "is_ipv6"}
Holds(p, a) == IF p = "is_ipv4" THEN is_ipv4(a) ELSE is_ipv6(a)

\* self.iter.filter(predicate).collect(): the kept items are pushed in turn.
RECURSIVE filter_collect(_, _, _)
filter_collect(it, p, acc) ==
  IF it = <<>> THEN acc
  ELSE filter_collect(Tail(it), p,
                      IF Holds(p, Head(it)) THEN Append(acc, Head(it)) ELSE acc)

\* SocketAddrs::filter.
filter_reversing(s, p) ==
  LET kept == filter_collect(s.iter, p, <<>>) IN
  SocketAddrs_new([i \in 1..Len(kept) |-> kept[Len(kept) + 1 - i]])
filter(s, p) == SocketAddrs_new(filter_collect(s.iter, p, <<>>))

\* Iterator::partition with |addr| addr.is_ipv6() == preferring_v6: each item
\* is pushed to the left vector when the closure holds, else to the right.
RECURSIVE partition_from(_, _, _, _)
partition_from(it, preferring_v6, left, right) ==
  IF it = <<>> THEN <<left, right>>
  ELSE IF is_ipv6(Head(it)) = preferring_v6
       THEN partition_from(Tail(it), preferring_v6, Append(left, Head(it)), right)
       ELSE partition_from(Tail(it), preferring_v6, left, Append(right, Head(it)))

partition_front(it, preferring_v6) ==
  LET parts == partition_from(it, preferring_v6, <<>>, <<>>)
      rev(q) == [i \in 1..Len(q) |-> q[Len(q) + 1 - i]]
  IN <<rev(parts[1]), rev(parts[2])>>
partition(it, preferring_v6) == partition_from(it, preferring_v6, <<>>, <<>>)

\* self.iter.as_slice().first().map(SocketAddr::is_ipv6).unwrap_or(false)
preferring_v6_of_last(s) ==
  IF s.iter = <<>> THEN FALSE ELSE is_ipv6(s.iter[Len(s.iter)])
preferring_v6_of(s) == IF s.iter = <<>> THEN FALSE ELSE is_ipv6(Head(s.iter))

\* SocketAddrs::split_by_preference.
split_by_preference_first_only(s, local_addr_ipv4, local_addr_ipv6) ==
  LET parts == partition(s.iter, preferring_v6_of(s))
  IN <<SocketAddrs_new(parts[1]), SocketAddrs_new(parts[2])>>
split_by_preference_no_fallback(s, local_addr_ipv4, local_addr_ipv6) ==
  CASE IsSome(local_addr_ipv4) /\ ~IsSome(local_addr_ipv6) ->
         <<filter(s, "is_ipv4"), SocketAddrs_new(<<>>)>>
    [] ~IsSome(local_addr_ipv4) /\ IsSome(local_addr_ipv6) ->
         <<filter(s, "is_ipv6"), SocketAddrs_new(<<>>)>>
    [] OTHER ->
         <<filter(s, IF preferring_v6_of(s) THEN "is_ipv6" ELSE "is_ipv4"),
           SocketAddrs_new(<<>>)>>
split_by_preference_both_as_v4(s, local_addr_ipv4, local_addr_ipv6) ==
  CASE IsSome(local_addr_ipv4) ->
         <<filter(s, "is_ipv4"), SocketAddrs_new(<<>>)>>
    [] ~IsSome(local_addr_ipv4) /\ IsSome(local_addr_ipv6) ->
         <<filter(s, "is_ipv6"), SocketAddrs_new(<<>>)>>
    [] OTHER ->
         LET parts == partition(s.iter, preferring_v6_of(s))
         IN <<SocketAddrs_new(parts[1]), SocketAddrs_new(parts[2])>>
split_by_preference_empty_fails(s, local_addr_ipv4, local_addr_ipv6) ==
  CASE IsSome(local_addr_ipv4) /\ ~IsSome(local_addr_ipv6) ->
         <<filter(s, "is_ipv4"), SocketAddrs_new(<<>>)>>
    [] ~IsSome(local_addr_ipv4) /\ IsSome(local_addr_ipv6) ->
         <<filter(s, "is_ipv6"), SocketAddrs_new(<<>>)>>
    [] OTHER ->
         IF s.iter = <<>> THEN <<"Panic">>
         ELSE LET parts == partition(s.iter, preferring_v6_of(s))
              IN <<SocketAddrs_new(parts[1]), SocketAddrs_new(parts[2])>>
split_by_preference(s, local_addr_ipv4, local_addr_ipv6) ==
  CASE IsSome(local_addr_ipv4) /\ ~IsSome(local_addr_ipv6) ->
         <<filter(s, "is_ipv4"), SocketAddrs_new(<<>>)>>
    [] ~IsSome(local_addr_ipv4) /\ IsSome(local_addr_ipv6) ->
         <<filter(s, "is_ipv6"), SocketAddrs_new(<<>>)>>
    [] OTHER ->
         LET parts == partition(s.iter, preferring_v6_of(s))
         IN <<SocketAddrs_new(parts[1]), SocketAddrs_new(parts[2])>>

\* SocketAddrs::is_empty and SocketAddrs::len.
is_empty(s) == s.iter = <<>>
len(s) == Len(s.iter)

(***************************************************************************)
(* host.parse::<Ipv4Addr>() and host.parse::<Ipv6Addr>(): the host is the  *)
(* sequence of its characters; the whole string must be consumed.          *)
(***************************************************************************)
DecChars == <<"0", "1", "2", "3", "4", "5", "6", "7", "8", "9">>
HexLower == <<"0", "1", "2", "3", "4", "5", "6", "7", "8", "9",
              "a", "b", "c", "d", "e", "f">>
HexUpper == <<"0", "1", "2", "3", "4", "5", "6", "7", "8", "9",
              "A", "B", "C", "D", "E", "F">>
IsDec(ch) == \E i \in 1..10 : DecChars[i] = ch
IsHex(ch) == \E i \in 1..16 : HexLower[i] = ch \/ HexUpper[i] = ch
DigitVal(ch) == (CHOOSE i \in 1..16 : HexLower[i] = ch \/ HexUpper[i] = ch) - 1

\* The value of the digits in f, most significant first.
RECURSIVE NumberOf(_, _, _)
NumberOf(f, radix, acc) ==
  IF f = <<>> THEN acc
  ELSE NumberOf(Tail(f), radix, acc * radix + DigitVal(Head(f)))

\* The fields of s between the occurrences of ch.
RECURSIVE SplitOn(_, _)
SplitOn(s, ch) ==
  IF \A i \in 1..Len(s) : s[i] # ch THEN <<s>>
  ELSE LET i == CHOOSE j \in 1..Len(s) :
                  s[j] = ch /\ \A k \in 1..(j - 1) : s[k] # ch
       IN <<SubSeq(s, 1, i - 1)>> \o SplitOn(SubSeq(s, i + 1, Len(s)), ch)

\* One octet: 1 to 3 decimal digits, no leading zero, at most 255.
DecOctet(f) ==
  IF /\ Len(f) \in 1..3
     /\ \A i \in 1..Len(f) : IsDec(f[i])
     /\ (Len(f) > 1 => f[1] # "0")
     /\ NumberOf(f, 10, 0) <= 255
  THEN Some(NumberOf(f, 10, 0)) ELSE None

\* One segment: 1 to 4 hexadecimal digits.
HexGroup(f) ==
  IF Len(f) \in 1..4 /\ \A i \in 1..Len(f) : IsHex(f[i])
  THEN Some(NumberOf(f, 16, 0)) ELSE None

parse_Ipv4Addr(s) ==
  LET f == SplitOn(s, ".") IN
  IF Len(s) <= 15 /\ Len(f) = 4 /\ \A i \in 1..4 : IsSome(DecOctet(f[i]))
  THEN Some([i \in 1..4 |-> Unwrap(DecOctet(f[i]))]) ELSE None

\* The segments of colon-separated fields; the last field may be a dotted
\* IPv4 address when v4_tail allows it, and then stands for two segments.
Ipv6Groups(fields, v4_tail) ==
  LET n == Len(fields)
      last_v4 == IF v4_tail /\ n > 0 THEN parse_Ipv4Addr(fields[n]) ELSE None
      hex_n == IF IsSome(last_v4) THEN n - 1 ELSE n
  IN IF \A i \in 1..hex_n : IsSome(HexGroup(fields[i]))
     THEN Some([i \in 1..hex_n |-> Unwrap(HexGroup(fields[i]))]
               \o (IF IsSome(last_v4)
                   THEN LET o == Unwrap(last_v4)
                        IN <<o[1] * 256 + o[2], o[3] * 256 + o[4]>>
                   ELSE <<>>))
     ELSE None

parse_Ipv6Addr(s) ==
  LET gaps == {i \in 1..(Len(s) - 1) : s[i] = ":" /\ s[i + 1] = ":"} IN
  IF gaps = {}
  THEN LET g == Ipv6Groups(SplitOn(s, ":"), TRUE)
       IN IF IsSome(g) /\ Len(Unwrap(g)) = 8 THEN g ELSE None
  ELSE LET at == CHOOSE i \in gaps : \A j \in gaps : i <= j
           head == SubSeq(s, 1, at - 1)
           tail == SubSeq(s, at + 2, Len(s))
           hg == IF head = <<>> THEN Some(<<>>)
                 ELSE Ipv6Groups(SplitOn(head, ":"), FALSE)
           tg == IF tail = <<>> THEN Some(<<>>)
                 ELSE Ipv6Groups(SplitOn(tail, ":"), TRUE)
       IN IF IsSome(hg) /\ IsSome(tg) /\ Len(Unwrap(hg)) + Len(Unwrap(tg)) <= 7
          THEN Some(Unwrap(hg)
                    \o [i \in 1..(8 - Len(Unwrap(hg)) - Len(Unwrap(tg))) |-> 0]
                    \o Unwrap(tg))
          ELSE None

\* SocketAddrs::try_parse.
try_parse_port0(host, port) ==
  IF IsSome(parse_Ipv4Addr(host))
  THEN Some([iter |-> <<SockV4(Unwrap(parse_Ipv4Addr(host)), 0)>>])
  ELSE IF IsSome(parse_Ipv6Addr(host))
  THEN Some([iter |-> <<SockV6(Unwrap(parse_Ipv6Addr(host)), 0)>>])
  ELSE None
try_parse(host, port) ==
  IF IsSome(parse_Ipv4Addr(host))
  THEN Some([iter |-> <<SockV4(Unwrap(parse_Ipv4Addr(host)), port)>>])
  ELSE IF IsSome(parse_Ipv6Addr(host))
  THEN Some([iter |-> <<SockV6(Unwrap(parse_Ipv6Addr(host)), port)>>])
  ELSE None

\* Hosts and ports handed to try_parse.
HostInputs ==
  {[text |-> "127.0.0.1", chars |-> <<"1", "2", "7", ".", "0", ".", "0", ".", "1">>],
   [text |-> "1.2.3.4", chars |-> <<"1", ".", "2", ".", "3", ".", "4">>],
   [text |-> "255.255.255.255", chars |-> <<"2", "5", "5", ".", "2", "5", "5", ".", "2", "5", "5", ".", "2", "5", "5">>],
   [text |-> "256.0.0.1", chars |-> <<"2", "5", "6", ".", "0", ".", "0", ".", "1">>],
   [text |-> "01.2.3.4", chars |-> <<"0", "1", ".", "2", ".", "3", ".", "4">>],
   [text |-> "1.2.3", chars |-> <<"1", ".", "2", ".", "3">>],
   [text |-> "1.2.3.4.5", chars |-> <<"1", ".", "2", ".", "3", ".", "4", ".", "5">>],
   [text |-> "1.2.3.4:80", chars |-> <<"1", ".", "2", ".", "3", ".", "4", ":", "8", "0">>],
   [text |-> "::1", chars |-> <<":", ":", "1">>],
   [text |-> "::", chars |-> <<":", ":">>],
   [text |-> "fe80::1", chars |-> <<"f", "e", "8", "0", ":", ":", "1">>],
   [text |-> "FE80::1", chars |-> <<"F", "E", "8", "0", ":", ":", "1">>],
   [text |-> "1:2:3:4:5:6:7:8", chars |-> <<"1", ":", "2", ":", "3", ":", "4", ":", "5", ":", "6", ":", "7", ":", "8">>],
   [text |-> "1:2:3:4:5:6:7", chars |-> <<"1", ":", "2", ":", "3", ":", "4", ":", "5", ":", "6", ":", "7">>],
   [text |-> "::ffff:1.2.3.4", chars |-> <<":", ":", "f", "f", "f", "f", ":", "1", ".", "2", ".", "3", ".", "4">>],
   [text |-> "1::2::3", chars |-> <<"1", ":", ":", "2", ":", ":", "3">>],
   [text |-> "12345::1", chars |-> <<"1", "2", "3", "4", "5", ":", ":", "1">>],
   [text |-> "[::1]", chars |-> <<"[", ":", ":", "1", "]">>],
   [text |-> "a.test", chars |-> <<"a", ".", "t", "e", "s", "t">>],
   [text |-> "localhost", chars |-> <<"l", "o", "c", "a", "l", "h", "o", "s", "t">>],
   [text |-> "", chars |-> <<>>]}
Ports == {0, 443, 65535}

\* Inputs of the address-sequence operations.
Vecs == UNION {[1..k -> Addrs] : k \in 0..MaxLen}
LocalV4 == {None, Some("10.0.0.1"), Some("10.0.0.2")}
LocalV6 == {None, Some("fe80::1"), Some("fe80::2")}

(***************************************************************************)
(* The resolver                                                            *)
(***************************************************************************)
\* Keys an override table may hold, and the names a caller resolves.
Keys == {"a.test"}
Names == Keys \cup {"x.a.test"}
\* Address lists an override entry may hold.
OverrideLists == {<<>>, <<V6A, V4B>>}
\* HashMap<String, Vec<SocketAddr>>: absent keys map to None.
OverrideTables ==
  {t \in [Names -> {None} \cup {Some(l) : l \in OverrideLists}] :
     \A n \in Names \ Keys : t[n] = None}

\* io::Error values: the OS errors of a failed lookup, and the error poll
\* builds from a cancelled JoinError.
OsErrors == {[kind |-> k, inner |-> "os"] : k \in {"NotFound", "Interrupted"}}
InterruptedErr == [kind |-> "Interrupted", inner |-> "JoinError::Cancelled"]
\* What (name, 0).to_socket_addrs() may return.
PlatformResults == {Ok(<<V6B, V4A>>)} \cup {Err(e) : e \in OsErrors}

VARIABLES
  overrides,  \* CustomResolver.overrides
  ready,      \* what the last poll_ready returned ("unpolled" before the first)
  name,       \* name[c]: the Name passed to call c (None before the call)
  task,       \* task[c]: the background task spawned by call c
  future,     \* future[c]: "none", "pending", "ready" or "dropped"
  output,     \* output[c]: what poll returned as Ready (None before)
  lookups,    \* lookups[c]: to_socket_addrs calls made for call c
  platform,   \* platform[c]: what to_socket_addrs returned for call c (None before)
  abandoned,  \* abandoned[c]: the future of call c was dropped while pending
  addrs,      \* SplitSpec: the SocketAddrs value under test (None once moved)
  source,     \* SplitSpec: the remaining elements when the last operation ran
  pinned,     \* SplitSpec: <<local_addr_ipv4, local_addr_ipv6>> of the last split
  halves,     \* SplitSpec: <<preferred, fallback>> of the last split
  filtered,   \* SplitSpec: result of the last filter
  item,       \* SplitSpec: result of the last next()
  op,         \* SplitSpec: the last operation
  literal,    \* SplitSpec: <<host, port>> to hand to try_parse (None otherwise)
  built,      \* SplitSpec: the elements the SocketAddrs value was built from
  taken       \* SplitSpec: how many elements next() has returned so far

resolverVars == <<overrides, ready, name, task, future, output, lookups,
                  platform, abandoned>>
splitVars == <<addrs, source, pinned, halves, filtered, item, op,
               literal, built, taken>>
vars == <<overrides, ready, name, task, future, output, lookups,
          platform, abandoned,
          addrs, source, pinned, halves, filtered, item, op,
          literal, built, taken>>

NoTask == [kind |-> "none", st |-> "none", hung |-> FALSE, out |-> None]

\* CustomResolver::new and CustomResolver::with_overrides.
CustomResolver_new == [n \in Names |-> None]
with_overrides(table) == table

\* self.overrides.get(name.as_str()): exact key lookup.
overrides_get_miss(table, n) == None
ParentDomain(n) == IF n = "x.a.test" THEN "a.test" ELSE n
overrides_get_suffix(table, n) ==
  IF table[n] # None THEN table[n] ELSE table[ParentDomain(n)]
overrides_get(table, n) == table[n]

\* The table after call: get borrows the entry and the list is cloned, so the
\* table keeps it.
overrides_after_remove(table, n) == [table EXCEPT ![n] = None]
overrides_after_call(table, n) == table

\* Service::poll_ready.
poll_ready_busy == IF \E c \in Calls : future[c] = "pending" THEN "Pending" ELSE "ReadyOk"
poll_ready == "ReadyOk"

\* The task Service::call spawns for `n`: on a hit, tokio::spawn of an async
\* block that yields the cloned list; on a miss, spawn_blocking of the lookup.
call_always_lookup(table, n) ==
  [kind |-> "blocking", st |-> "queued", hung |-> FALSE, out |-> None]
call_empty_is_miss(table, n) ==
  LET hit == overrides_get(table, n) IN
  IF IsSome(hit) /\ Unwrap(hit) # <<>>
  THEN [kind |-> "async", st |-> "queued", hung |-> FALSE,
        out |-> Some(Ok(SocketAddrs_new(Unwrap(hit))))]
  ELSE [kind |-> "blocking", st |-> "queued", hung |-> FALSE, out |-> None]
call(table, n) ==
  LET hit == overrides_get(table, n) IN
  IF IsSome(hit)
  THEN [kind |-> "async", st |-> "queued", hung |-> FALSE,
        out |-> Some(Ok(SocketAddrs_new(Unwrap(hit))))]
  ELSE [kind |-> "blocking", st |-> "queued", hung |-> FALSE, out |-> None]

\* The closure of spawn_blocking: to_socket_addrs().map(|i| SocketAddrs { iter: i }).
lookup_closure_swallow(r) ==
  IF IsOk(r) THEN Ok([iter |-> r[2]]) ELSE Ok([iter |-> <<>>])
lookup_closure(r) ==
  IF IsOk(r) THEN Ok([iter |-> r[2]]) ELSE r

\* Polling the JoinHandle: None while the task is not finished.
JoinHandle_poll(t) ==
  CASE t.st = "complete" -> Some(Ok(Unwrap(t.out)))
    [] t.st = "cancelled" -> Some(Err("cancelled"))
    [] t.st = "panicked" -> Some(Err("panic"))
    [] OTHER -> None

\* The closure poll maps the join result with.
poll_map_masking(res) ==
  IF IsOk(res)
  THEN (IF IsOk(res[2]) THEN Ok([inner |-> res[2][2]]) ELSE Err(res[2][2]))
  ELSE Err(InterruptedErr)
poll_map(res) ==
  IF IsOk(res)
  THEN (IF IsOk(res[2]) THEN Ok([inner |-> res[2][2]]) ELSE Err(res[2][2]))
  ELSE IF res[2] = "cancelled" THEN Err(InterruptedErr)
  ELSE <<"Panic", "gai background task failed">>

\* JoinHandle::abort: a task that has not started is cancelled; a blocking
\* closure that is running cannot be interrupted; a finished task is left alone.
abort(t) == IF t.st = "queued" THEN [t EXCEPT !.st = "cancelled", !.out = None] ELSE t

\* Drop for CustomResolverFuture: abort the task; then the JoinHandle field is
\* dropped with the future, and with it any output the task still holds.
drop_leaky(c) ==
  /\ task' = [task EXCEPT ![c] = abort(task[c])]
  /\ future' = future
drop(c) ==
  /\ task' = [task EXCEPT ![c] = [abort(task[c]) EXCEPT !.out = None]]
  /\ future' = [future EXCEPT ![c] = "dropped"]

InitSplitIdle ==
  /\ addrs = None
  /\ source = <<>>
  /\ pinned = <<None, None>>
  /\ halves = None
  /\ filtered = None
  /\ item = None
  /\ op = "none"
  /\ literal = None
  /\ built = <<>>
  /\ taken = 0

Init ==
  /\ overrides \in {with_overrides(t) : t \in OverrideTables}
  /\ ready = "unpolled"
  /\ name = [c \in Calls |-> None]
  /\ task = [c \in Calls |-> NoTask]
  /\ future = [c \in Calls |-> "none"]
  /\ output = [c \in Calls |-> None]
  /\ lookups = [c \in Calls |-> 0]
  /\ platform = [c \in Calls |-> None]
  /\ abandoned = [c \in Calls |-> FALSE]
  /\ InitSplitIdle

PollReady ==
  /\ ready' = poll_ready
  /\ UNCHANGED <<overrides, name, task, future, output, lookups, platform, abandoned>>
  /\ UNCHANGED splitVars

\* resolver.call(n): calls are numbered in the order they are made.
Call(c, n) ==
  /\ future[c] = "none"
  /\ \A d \in Calls : d < c => future[d] # "none"
  /\ name' = [name EXCEPT ![c] = Some(n)]
  /\ task' = [task EXCEPT ![c] = call(overrides, n)]
  /\ future' = [future EXCEPT ![c] = "pending"]
  /\ overrides' = overrides_after_call(overrides, n)
  /\ UNCHANGED <<ready, output, lookups, platform, abandoned>>
  /\ UNCHANGED splitVars

\* The runtime polls the spawned async block, which completes at once.
RunAsync(c) ==
  /\ task[c].kind = "async"
  /\ task[c].st = "queued"
  /\ task' = [task EXCEPT ![c].st = "complete"]
  /\ UNCHANGED <<overrides, ready, name, future, output, lookups, platform, abandoned>>
  /\ UNCHANGED splitVars

\* A blocking worker takes the closure and enters to_socket_addrs, which
\* either returns later or stays blocked (hung). The blocking pool starts a
\* thread per queued closure up to a cap far above MaxCalls, so a worker is
\* always available here.
StartBlocking(c, h) ==
  /\ task[c].kind = "blocking"
  /\ task[c].st = "queued"
  /\ task' = [task EXCEPT ![c].st = "running", ![c].hung = h]
  /\ lookups' = [lookups EXCEPT ![c] = @ + 1]
  /\ UNCHANGED <<overrides, ready, name, future, output, platform, abandoned>>
  /\ UNCHANGED splitVars

\* to_socket_addrs returns r and the closure ends; its output is kept for the
\* JoinHandle, or discarded when the handle is already dropped.
LookupReturn(c, r) ==
  /\ task[c].st = "running"
  /\ ~task[c].hung
  /\ task' = [task EXCEPT ![c].st = "complete",
                          ![c].out = IF future[c] = "dropped" THEN None
                                     ELSE Some(lookup_closure(r))]
  /\ platform' = [platform EXCEPT ![c] = Some(r)]
  /\ UNCHANGED <<overrides, ready, name, future, output, lookups, abandoned>>
  /\ UNCHANGED splitVars

\* The worker terminates abnormally while running the closure.
WorkerPanic(c) ==
  /\ task[c].st = "running"
  /\ task' = [task EXCEPT ![c].st = "panicked", ![c].hung = FALSE]
  /\ UNCHANGED <<overrides, ready, name, future, output, lookups, platform, abandoned>>
  /\ UNCHANGED splitVars

\* CustomResolverFuture::poll returning Ready (a Pending poll changes nothing):
\* the task's output moves to the caller.
Poll(c) ==
  /\ future[c] = "pending"
  /\ IsSome(JoinHandle_poll(task[c]))
  /\ output' = [output EXCEPT ![c] = Some(poll_map(Unwrap(JoinHandle_poll(task[c]))))]
  /\ future' = [future EXCEPT ![c] = "ready"]
  /\ task' = [task EXCEPT ![c].out = None]
  /\ UNCHANGED <<overrides, ready, name, lookups, platform, abandoned>>
  /\ UNCHANGED splitVars

\* The future is dropped, pending or after it was ready.
Drop(c) ==
  /\ future[c] \in {"pending", "ready"}
  /\ abandoned' = [abandoned EXCEPT ![c] = (future[c] = "pending")]
  /\ drop(c)
  /\ UNCHANGED <<overrides, ready, name, output, lookups, platform>>
  /\ UNCHANGED splitVars

Next ==
  \/ PollReady
  \/ \E c \in Calls, n \in Names : Call(c, n)
  \/ \E c \in Calls : RunAsync(c)
  \/ \E c \in Calls, h \in BOOLEAN : StartBlocking(c, h)
  \/ \E c \in Calls, r \in PlatformResults : LookupReturn(c, r)
  \/ \E c \in Calls : WorkerPanic(c)
  \/ \E c \in Calls : Poll(c)
  \/ \E c \in Calls : Drop(c)

Spec == Init /\ [][Next]_vars

(***************************************************************************)
(* SplitSpec: a SocketAddrs built by SocketAddrs::new and used by value    *)
(***************************************************************************)
InitResolverIdle ==
  /\ overrides = CustomResolver_new
  /\ ready = "unpolled"
  /\ name = [c \in Calls |-> None]
  /\ task = [c \in Calls |-> NoTask]
  /\ future = [c \in Calls |-> "none"]
  /\ output = [c \in Calls |-> None]
  /\ lookups = [c \in Calls |-> 0]
  /\ platform = [c \in Calls |-> None]
  /\ abandoned = [c \in Calls |-> FALSE]

\* Either a value built by SocketAddrs::new(v), or a host and a port that
\* try_parse is about to be called with.
InitSplit ==
  /\ InitResolverIdle
  /\ source = <<>>
  /\ pinned = <<None, None>>
  /\ halves = None
  /\ filtered = None
  /\ item = None
  /\ taken = 0
  /\ \/ /\ \E v \in Vecs : addrs = Some(SocketAddrs_new(v)) /\ built = v
        /\ literal = None
        /\ op = "new"
     \/ /\ addrs = None
        /\ built = <<>>
        /\ literal \in {Some(<<h, p>>) : h \in HostInputs, p \in Ports}
        /\ op = "literal"

\* SocketAddrs::try_parse(host, port)
TryParse ==
  /\ op = "literal"
  /\ LET r == try_parse(Unwrap(literal)[1].chars, Unwrap(literal)[2]) IN
       /\ addrs' = r
       /\ built' = IF IsSome(r) THEN Unwrap(r).iter ELSE <<>>
  /\ op' = "try_parse"
  /\ UNCHANGED <<source, pinned, halves, filtered, item, literal, taken>>
  /\ UNCHANGED resolverVars

\* addrs.next()
IterNext ==
  /\ IsSome(addrs)
  /\ LET r == SocketAddrs_next(Unwrap(addrs)) IN
       /\ item' = r[1]
       /\ addrs' = Some(r[2])
       /\ taken' = IF IsSome(r[1]) THEN taken + 1 ELSE taken
  /\ source' = Unwrap(addrs).iter
  /\ op' = "next"
  /\ UNCHANGED <<pinned, halves, filtered, literal, built>>
  /\ UNCHANGED resolverVars

\* addrs.split_by_preference(l4, l6): consumes addrs.
Split(l4, l6) ==
  /\ IsSome(addrs)
  /\ halves' = Some(split_by_preference(Unwrap(addrs), l4, l6))
  /\ pinned' = <<l4, l6>>
  /\ source' = Unwrap(addrs).iter
  /\ addrs' = None
  /\ op' = "split"
  /\ UNCHANGED <<filtered, item, literal, built, taken>>
  /\ UNCHANGED resolverVars

\* addrs.filter(p): consumes addrs.
Filter(p) ==
  /\ IsSome(addrs)
  /\ filtered' = Some(<<p, filter(Unwrap(addrs), p)>>)
  /\ source' = Unwrap(addrs).iter
  /\ addrs' = None
  /\ op' = "filter"
  /\ UNCHANGED <<pinned, halves, item, literal, built, taken>>
  /\ UNCHANGED resolverVars

NextSplit ==
  \/ TryParse
  \/ IterNext
  \/ \E l4 \in LocalV4, l6 \in LocalV6 : Split(l4, l6)
  \/ \E p \in Predicates : Filter(p)

SplitSpec == InitSplit /\ [][NextSplit]_vars

\* The runtime runs every queued task, a lookup that is not hung returns, and
\* the caller polls a future it keeps once its task has finished.
Fairness ==
  \A c \in Calls :
    /\ WF_vars(RunAsync(c))
    /\ WF_vars(\E h \in BOOLEAN : StartBlocking(c, h))
    /\ WF_vars(\E r \in PlatformResults : LookupReturn(c, r))
    /\ WF_vars(Poll(c))

FairSpec == Spec /\ Fairness


(***************************************************************************)
(* Properties                                                              *)
(***************************************************************************)
Count(a, q) == Cardinality({i \in 1..Len(q) : q[i] = a})

RECURSIVE IsSubseq(_, _)
IsSubseq(a, b) ==
  IF a = <<>> THEN TRUE
  ELSE IF b = <<>> THEN FALSE
  ELSE IF Head(a) = Head(b) THEN IsSubseq(Tail(a), Tail(b))
  ELSE IsSubseq(a, Tail(b))

V4Of(q) == SelectSeq(q, LAMBDA a : a.fam = "v4")
V6Of(q) == SelectSeq(q, LAMBDA a : a.fam = "v6")

Preferred == Unwrap(halves)[1].iter
Fallback == Unwrap(halves)[2].iter
OnlyV4Pinned == IsSome(pinned[1]) /\ ~IsSome(pinned[2])
OnlyV6Pinned == ~IsSome(pinned[1]) /\ IsSome(pinned[2])
FirstAddressCase == ~OnlyV4Pinned /\ ~OnlyV6Pinned

Hit(c) == IsSome(name[c]) /\ overrides[Unwrap(name[c])] # None
Miss(c) == IsSome(name[c]) /\ overrides[Unwrap(name[c])] = None
Hung(c) == task[c].st = "running" /\ task[c].hung
Panic == <<"Panic", "gai background task failed">>

\* C1: a call whose hostname is a key of the override table makes no platform
\* lookup, and when its future completes it yields exactly the list stored for
\* that key: the same addresses in the same order.
C1_OverrideHit ==
  \A c \in Calls :
    Hit(c) =>
      /\ lookups[c] = 0
      /\ platform[c] = None
      /\ IsSome(output[c]) =>
            /\ IsOk(Unwrap(output[c]))
            /\ CustomAddrs_collect(Unwrap(output[c])[2])
                 = Unwrap(overrides[Unwrap(name[c])])

C1_Witness ==
  \E c \in Calls :
    /\ Hit(c)
    /\ IsSome(output[c])
    /\ CustomAddrs_collect(Unwrap(output[c])[2]) = <<V6A, V4B>>

\* C2 as stated: for every pinning input, split_by_preference returns halves
\* whose lengths add up to the length of S and that hold every element of S
\* exactly once.
C2_TotalityAllPinnings ==
  op = "split" =>
    /\ Len(Preferred) + Len(Fallback) = Len(source)
    /\ \A a \in Addrs : Count(a, Preferred) + Count(a, Fallback) = Count(a, source)

\* C2 amended: with neither or both families pinned the halves are a total
\* partition of S; with exactly one family pinned the halves hold exactly the
\* elements of the pinned family, each once, and the elements of the other
\* family are dropped. No element is ever duplicated.
C2_Totality ==
  op = "split" =>
    /\ FirstAddressCase =>
         /\ Len(Preferred) + Len(Fallback) = Len(source)
         /\ \A a \in Addrs :
              Count(a, Preferred) + Count(a, Fallback) = Count(a, source)
    /\ OnlyV4Pinned =>
         /\ Len(Preferred) + Len(Fallback) = Len(V4Of(source))
         /\ \A a \in Addrs :
              Count(a, Preferred) + Count(a, Fallback)
                = IF a.fam = "v4" THEN Count(a, source) ELSE 0
    /\ OnlyV6Pinned =>
         /\ Len(Preferred) + Len(Fallback) = Len(V6Of(source))
         /\ \A a \in Addrs :
              Count(a, Preferred) + Count(a, Fallback)
                = IF a.fam = "v6" THEN Count(a, source) ELSE 0

C2_Witness ==
  /\ op = "split"
  /\ OnlyV4Pinned
  /\ source = <<V6A, V4A, V4B>>
  /\ Len(Preferred) + Len(Fallback) = 2

\* C3: with only a local IPv4 address pinned, fallback is empty and preferred
\* is exactly the IPv4 elements of S in their original order, whatever the
\* first element of S is; symmetrically for only IPv6 pinned.
C3_SingleFamilyPinning ==
  op = "split" =>
    /\ OnlyV4Pinned => Fallback = <<>> /\ Preferred = V4Of(source)
    /\ OnlyV6Pinned => Fallback = <<>> /\ Preferred = V6Of(source)

C3_Witness ==
  /\ op = "split"
  /\ OnlyV4Pinned
  /\ source = <<V6A, V4B, V4A>>
  /\ Preferred = <<V4B, V4A>>

\* C4: for a non-empty S with neither or both families pinned, preferred is
\* exactly the elements of the family of S's first element and fallback is
\* exactly the elements of the other family, so preferred starts with S's
\* first element.
C4_FirstAddressRule ==
  (op = "split" /\ FirstAddressCase /\ source # <<>>) =>
    /\ Preferred = SelectSeq(source, LAMBDA a : a.fam = Head(source).fam)
    /\ Fallback = SelectSeq(source, LAMBDA a : a.fam # Head(source).fam)
    /\ Preferred # <<>>
    /\ Head(Preferred) = Head(source)

C4_Witness ==
  /\ op = "split"
  /\ IsSome(pinned[1]) /\ IsSome(pinned[2])
  /\ source = <<V6A, V4A, V6B>>
  /\ Head(Preferred) = V6A
  /\ Head(Fallback) = V4A

\* C5: preferred and fallback are each a subsequence of S, and so is the output
\* of filter: elements keep their relative order.
C5_OrderPreserved ==
  /\ op = "split" => IsSubseq(Preferred, source) /\ IsSubseq(Fallback, source)
  /\ op = "filter" => IsSubseq(Unwrap(filtered)[2].iter, source)

C5_Witness ==
  /\ op = "split"
  /\ pinned = <<None, None>>
  /\ source = <<V4B, V6B, V4A>>
  /\ Preferred = <<V4B, V4A>>
  /\ Fallback = <<V6B>>

\* C6: a call whose future was dropped while pending never produces a panic or
\* a successful address sequence: its outcome is nothing or Interrupted.
C6_CancellationSafety ==
  \A c \in Calls :
    abandoned[c] => output[c] \in {None, Some(Err(InterruptedErr))}

C6_Witness ==
  \E c \in Calls :
    /\ abandoned[c]
    /\ platform[c] = Some(Ok(<<V6B, V4A>>))
    /\ output[c] = None

\* C7 as stated: once the future of a missed call has been dropped while
\* pending, its background lookup is not running, whether it was queued or
\* already running at the drop.
C7_BackgroundStopped ==
  \A c \in Calls :
    (abandoned[c] /\ Miss(c)) => task[c].st # "running"

\* C8: when the platform lookup fails with e the future completes with exactly
\* Err(e); when it succeeds the future yields the platform's addresses in the
\* platform's order.
C8_PlatformResultPropagated ==
  \A c \in Calls :
    (IsSome(platform[c]) /\ IsSome(output[c])) =>
      LET r == Unwrap(platform[c])
          o == Unwrap(output[c])
      IN /\ IsErr(r) => o = Err(r[2])
         /\ IsOk(r) => IsOk(o) /\ CustomAddrs_collect(o[2]) = r[2]

C8_Witness ==
  \E c \in Calls :
    /\ platform[c] = Some(Err([kind |-> "NotFound", inner |-> "os"]))
    /\ output[c] = Some(Err([kind |-> "NotFound", inner |-> "os"]))

\* C9: poll_ready never answers anything but Ready(Ok), and every pending call
\* whose own lookup is not hung leaves the pending state, whatever the other
\* calls do, also when another call's lookup stays blocked forever.
C9_Independence ==
  /\ [](ready \in {"unpolled", "ReadyOk"})
  /\ \A c \in Calls :
       (future[c] = "pending") ~> (future[c] # "pending" \/ Hung(c))

C9_Witness ==
  /\ ready = "ReadyOk"
  /\ future[1] = "pending" /\ Hung(1)
  /\ name[1] # name[2]
  /\ Miss(2)
  /\ future[2] = "ready"
  /\ IsOk(Unwrap(output[2]))

\* C10: when the background task ended by a panic, poll never returns Ok or
\* Err: it panics; and the lookup was made once, never retried.
C10_WorkerCrashFatal ==
  \A c \in Calls :
    task[c].st = "panicked" =>
      /\ output[c] \in {None, Some(Panic)}
      /\ lookups[c] = 1

C10_Witness ==
  \E c \in Calls :
    /\ task[c].st = "panicked"
    /\ output[c] = Some(Panic)

\* C11 as stated: a call that hits the override table spawns no task at all,
\* and a call that misses spawns one blocking lookup task.
C11_HitSpawnsNothing ==
  \A c \in Calls :
    /\ Hit(c) => task[c].kind = "none"
    /\ Miss(c) => task[c].kind = "blocking"

\* C12: a call whose name is not exactly a key of the table (a subdomain of a
\* key included) makes at most one platform lookup, none when its task was
\* cancelled before it started, and exactly one when its task ran to an end
\* or its future produced an outcome.
C12_OneLookupPerMiss ==
  \A c \in Calls :
    (IsSome(name[c]) /\ Unwrap(name[c]) \notin {k \in Keys : overrides[k] # None}) =>
      /\ task[c].kind = "blocking"
      /\ lookups[c] <= 1
      /\ task[c].st \in {"queued", "cancelled"} => lookups[c] = 0
      /\ task[c].st \in {"running", "complete", "panicked"} => lookups[c] = 1
      /\ IsSome(output[c]) => lookups[c] = 1

C12_Witness ==
  \E c \in Calls :
    /\ name[c] = Some("x.a.test")
    /\ overrides["a.test"] = Some(<<V6A, V4B>>)
    /\ output[c] = Some(Ok([inner |-> [iter |-> <<V6B, V4A>>]]))
    /\ lookups[c] = 1

\* C13: no step changes the override table, and two calls for the same
\* overridden name that both completed got the same list, also after the
\* first result was dropped.
C13_OverridesReadOnly ==
  /\ [][overrides' = overrides]_vars
  /\ [](\A c, d \in Calls :
          (Hit(c) /\ name[c] = name[d] /\ IsSome(output[c]) /\ IsSome(output[d]))
            => output[c] = output[d])

C13_Witness ==
  /\ name[1] = Some("a.test")
  /\ name[2] = Some("a.test")
  /\ future[1] = "dropped"
  /\ output[1] = Some(Ok([inner |-> [iter |-> <<V6A, V4B>>]]))
  /\ output[2] = output[1]

\* C17 as stated: a future completes with an error of kind Interrupted only
\* when its background task was cancelled; a failed platform lookup is never
\* reported as Interrupted.
C17_InterruptedOnlyByCancel ==
  \A c \in Calls :
    (IsSome(output[c]) /\ IsErr(Unwrap(output[c]))
       /\ Unwrap(output[c])[2].kind = "Interrupted")
      => (task[c].st = "cancelled" /\ platform[c] = None)

\* C18: under fair scheduling a pending call leaves the pending state (it
\* completes, or the caller drops it); the only exception is a miss whose own
\* lookup is hung or whose worker crashed; the outcome of a call whose lookup
\* returned is an address sequence or an error, a hit always yields an
\* address sequence, an outcome once produced never changes, and a hit
\* completes whatever the lookups of the other calls do.
C18_Completion ==
  /\ \A c \in Calls :
       (future[c] = "pending" /\ task[c].st # "panicked")
         ~> \/ future[c] \in {"ready", "dropped"}
            \/ Miss(c) /\ (Hung(c) \/ task[c].st = "panicked")
  /\ [](\A c \in Calls :
          /\ (future[c] = "ready") <=> IsSome(output[c]) /\ future[c] # "dropped"
          /\ (IsSome(output[c]) /\ IsSome(platform[c])) =>
                (IsOk(Unwrap(output[c])) \/ IsErr(Unwrap(output[c])))
          /\ (IsSome(output[c]) /\ Hit(c)) => IsOk(Unwrap(output[c])))
  /\ [][\A c \in Calls : IsSome(output[c]) => output'[c] = output[c]]_vars

C18_Witness ==
  /\ future[1] = "pending" /\ Hung(1)
  /\ Hit(2)
  /\ future[2] = "ready"
  /\ output[2] = Some(Ok([inner |-> [iter |-> <<V6A, V4B>>]]))

\* C20: a name whose override entry is the empty list is a hit: no platform
\* lookup is made for it and its future yields Ok with no address.
C20_EmptyOverrideEntry ==
  \A c \in Calls :
    (IsSome(name[c]) /\ overrides[Unwrap(name[c])] = Some(<<>>)) =>
      /\ task[c].kind = "async"
      /\ lookups[c] = 0
      /\ IsSome(output[c]) =>
            /\ IsOk(Unwrap(output[c]))
            /\ CustomAddrs_collect(Unwrap(output[c])[2]) = <<>>

C20_Witness ==
  \E c \in Calls :
    /\ overrides["a.test"] = Some(<<>>)
    /\ name[c] = Some("a.test")
    /\ output[c] = Some(Ok([inner |-> [iter |-> <<>>]]))


\* The IPv4 and IPv6 literals among HostInputs, by their text, with the family
\* and the address each denotes; every other host of HostInputs is no literal.
Literals ==
  {<<"127.0.0.1", "v4", <<127, 0, 0, 1>>>>,
   <<"1.2.3.4", "v4", <<1, 2, 3, 4>>>>,
   <<"255.255.255.255", "v4", <<255, 255, 255, 255>>>>,
   <<"::1", "v6", <<0, 0, 0, 0, 0, 0, 0, 1>>>>,
   <<"::", "v6", <<0, 0, 0, 0, 0, 0, 0, 0>>>>,
   <<"fe80::1", "v6", <<65152, 0, 0, 0, 0, 0, 0, 1>>>>,
   <<"FE80::1", "v6", <<65152, 0, 0, 0, 0, 0, 0, 1>>>>,
   <<"1:2:3:4:5:6:7:8", "v6", <<1, 2, 3, 4, 5, 6, 7, 8>>>>,
   <<"::ffff:1.2.3.4", "v6", <<0, 0, 0, 0, 0, 65535, 258, 772>>>>}
NonLiterals ==
  {"256.0.0.1", "01.2.3.4", "1.2.3", "1.2.3.4.5", "1.2.3.4:80",
   "1:2:3:4:5:6:7", "1::2::3", "12345::1", "[::1]", "a.test", "localhost", ""}
ResolverUntouched ==
  /\ overrides = CustomResolver_new
  /\ \A c \in Calls :
       /\ name[c] = None
       /\ task[c] = NoTask
       /\ future[c] = "none"
       /\ lookups[c] = 0
       /\ platform[c] = None

\* C14: for a host that is an IPv4 or IPv6 literal and any port, try_parse
\* returns a sequence of exactly one address, whose IP is the literal's
\* address and whose port is the given port; for a host that is neither it
\* returns None; either way no override table is read, no platform lookup is
\* made and no background task exists.
C14_LiteralParse ==
  op = "try_parse" =>
    LET host == Unwrap(literal)[1].text
        port == Unwrap(literal)[2]
    IN /\ host \in NonLiterals \cup {l[1] : l \in Literals}
       /\ \A l \in Literals :
            host = l[1] =>
              addrs = Some([iter |-> <<[fam |-> l[2], ip |-> l[3], port |-> port]>>])
       /\ host \in NonLiterals => addrs = None
       /\ ResolverUntouched

C14_Witness ==
  /\ op = "try_parse"
  /\ Unwrap(literal)[1].text = "::ffff:1.2.3.4"
  /\ Unwrap(literal)[2] = 443
  /\ IsSome(addrs)
  /\ len(Unwrap(addrs)) = 1
  /\ Unwrap(addrs).iter[1].port = 443


\* C15: splitting S with both families pinned returns the same halves as
\* splitting S with neither pinned, and in every pinning case the halves are
\* the same for every choice of the pinned address values: only which
\* families are pinned matters.
C15_BothPinnedAsNeither ==
  op = "split" =>
    /\ (IsSome(pinned[1]) /\ IsSome(pinned[2])) =>
         Unwrap(halves) = split_by_preference(SocketAddrs_new(source), None, None)
    /\ \A l4 \in LocalV4, l6 \in LocalV6 :
         (IsSome(l4) = IsSome(pinned[1]) /\ IsSome(l6) = IsSome(pinned[2])) =>
           Unwrap(halves) = split_by_preference(SocketAddrs_new(source), l4, l6)

C15_Witness ==
  /\ op = "split"
  /\ pinned = <<Some("10.0.0.2"), Some("fe80::2")>>
  /\ source = <<V6B, V4A, V6A>>
  /\ Preferred = <<V6B, V6A>>
  /\ Fallback = <<V4A>>

\* C16: splitting an empty sequence returns an empty preferred and an empty
\* fallback for every pinning input (neither, IPv4 only, IPv6 only, both),
\* and does not fail.
C16_EmptySource ==
  (op = "split" /\ source = <<>>) =>
    /\ IsSome(halves)
    /\ Len(Unwrap(halves)) = 2
    /\ is_empty(Unwrap(halves)[1])
    /\ is_empty(Unwrap(halves)[2])

C16_Witness ==
  /\ op = "split"
  /\ source = <<>>
  /\ IsSome(pinned[1]) /\ IsSome(pinned[2])
  /\ is_empty(Unwrap(halves)[1])
  /\ is_empty(Unwrap(halves)[2])


\* The elements of the original list that next() has not returned yet.
Remainder == SubSeq(built, taken + 1, Len(built))

\* C19: after k calls of next() that returned an element, on a value built
\* from n addresses, len() is n - k and is_empty() holds exactly when k = n;
\* a split made then hands out only elements of the remaining n - k, each at
\* most as often as it remains and in their order, and with neither or both
\* families pinned it places every remaining element and prefers the family
\* of the first remaining element. (Which elements a single pinned family
\* keeps is the subject of C2 and C3.)
C19_ActsOnRemainder ==
  /\ taken <= Len(built)
  /\ IsSome(addrs) =>
       /\ len(Unwrap(addrs)) = Len(built) - taken
       /\ is_empty(Unwrap(addrs)) <=> (taken = Len(built))
       /\ Unwrap(addrs).iter = Remainder
  /\ op = "split" =>
       /\ IsSubseq(Preferred, Remainder)
       /\ IsSubseq(Fallback, Remainder)
       /\ \A a \in Addrs :
            Count(a, Preferred) + Count(a, Fallback) <= Count(a, Remainder)
       /\ FirstAddressCase =>
            /\ Len(Preferred) + Len(Fallback) = Len(Remainder)
            /\ Remainder # <<>> =>
                 /\ Preferred # <<>>
                 /\ Head(Preferred) = Head(Remainder)
                 /\ \A i \in 1..Len(Preferred) :
                      Preferred[i].fam = Head(Remainder).fam
                 /\ \A i \in 1..Len(Fallback) :
                      Fallback[i].fam # Head(Remainder).fam

C19_Witness ==
  /\ op = "split"
  /\ built = <<V4A, V6A, V4B>>
  /\ taken = 1
  /\ pinned = <<None, None>>
  /\ Preferred = <<V6A>>
  /\ Fallback = <<V4B>>

====
